---- MODULE Spec2Model ----
(***************************************************************************)
(* Model of src/src/index.ts: a library of pure indicator functions over   *)
(* arrays of numbers.  A call is modelled as a small state machine: Init   *)
(* draws the function and its arguments from bounded sets, and the actions *)
(* run the function (the loops of rsi and calculateAD one iteration per    *)
(* step, the other functions in one step).                                 *)
(*                                                                         *)
(* Numbers.  A JavaScript number is modelled as a record                   *)
(*   [k |-> "fin", n |-> p, d |-> q]   the rational p/q, q > 0, reduced    *)
(*   [k |-> "inf", n |-> s, d |-> 1]   s = 1: +Infinity, s = -1: -Infinity *)
(*   [k |-> "nan", n |-> 0, d |-> 1]   NaN                                 *)
(*   [k |-> "undef", n |-> 0, d |-> 1] undefined (a read past an array)    *)
(* with the IEEE-754 rules for NaN and the infinities.  Finite arithmetic  *)
(* is exact (no rounding), and zero carries no sign: every zero divisor    *)
(* the modelled code can produce is a sum or difference of equal numbers   *)
(* or a non-negative sum, which IEEE-754 gives as +0.                      *)
(***************************************************************************)
EXTENDS Integers, Sequences, FiniteSets, TLC

VARIABLES fn, args, pc, loc, result

vars == <<fn, args, pc, loc, result>>

\* ------------------------------------------------------------------ bounds
MaxLen == 3
MaxPrice == 2
MaxBars == 3

\* ------------------------------------------------------------- arithmetic
RECURSIVE Gcd(_, _)
Gcd(a, b) == IF b = 0 THEN a ELSE Gcd(b, a % b)

AbsInt(x) == IF x < 0 THEN -x ELSE x

SignInt(x) == IF x < 0 THEN -1 ELSE IF x = 0 THEN 0 ELSE 1

NaN == [k |-> "nan", n |-> 0, d |-> 1]

Infinity == [k |-> "inf", n |-> 1, d |-> 1]

NegInfinity == [k |-> "inf", n |-> -1, d |-> 1]

undefined == [k |-> "undef", n |-> 0, d |-> 1]

\* the rational p/q (q # 0), reduced, with a positive denominator
Fin(p, q) ==
  LET g == Gcd(AbsInt(p), AbsInt(q))
      s == IF q < 0 THEN -1 ELSE 1
  IN [k |-> "fin", n |-> s * (p \div g), d |-> s * (q \div g)]

Num(i) == [k |-> "fin", n |-> i, d |-> 1]

\* ToNumber: undefined converts to NaN in arithmetic
ToNum(a) == IF a.k = "undef" THEN NaN ELSE a

IsFinite(a) == a.k = "fin"

IsNaN(a) == ToNum(a).k = "nan"

Sign(a) == SignInt(a.n)

Neg(a) ==
  LET x == ToNum(a)
  IN IF x.k = "nan" THEN NaN ELSE [x EXCEPT !.n = -x.n]

Add(a, b) ==
  LET x == ToNum(a)
      y == ToNum(b)
  IN IF x.k = "nan" \/ y.k = "nan" THEN NaN
     ELSE IF x.k = "inf" /\ y.k = "inf" THEN (IF x.n = y.n THEN x ELSE NaN)
     ELSE IF x.k = "inf" THEN x
     ELSE IF y.k = "inf" THEN y
     ELSE Fin(x.n * y.d + y.n * x.d, x.d * y.d)

Sub(a, b) == Add(a, Neg(b))

Mul(a, b) ==
  LET x == ToNum(a)
      y == ToNum(b)
  IN IF x.k = "nan" \/ y.k = "nan" THEN NaN
     ELSE IF x.k = "inf" \/ y.k = "inf"
          THEN (IF Sign(x) * Sign(y) = 0 THEN NaN
                ELSE [k |-> "inf", n |-> Sign(x) * Sign(y), d |-> 1])
     ELSE Fin(x.n * y.n, x.d * y.d)

Div(a, b) ==
  LET x == ToNum(a)
      y == ToNum(b)
  IN IF x.k = "nan" \/ y.k = "nan" THEN NaN
     ELSE IF x.k = "inf"
          THEN (IF y.k = "inf" THEN NaN
                ELSE [k |-> "inf", n |-> x.n * (IF y.n < 0 THEN -1 ELSE 1), d |-> 1])
     ELSE IF y.k = "inf" THEN Num(0)
     ELSE IF y.n = 0
          THEN (IF x.n = 0 THEN NaN ELSE [k |-> "inf", n |-> Sign(x), d |-> 1])
     ELSE Fin(x.n * y.d, x.d * y.n)

\* Math.abs
Abs(a) ==
  LET x == ToNum(a)
  IN IF x.k = "nan" THEN NaN ELSE [x EXCEPT !.n = AbsInt(x.n)]

\* a > b and a < b; false when either side is NaN
Gt(a, b) ==
  LET x == ToNum(a)
      y == ToNum(b)
  IN IF x.k = "nan" \/ y.k = "nan" THEN FALSE
     ELSE IF x.k = "inf" THEN x.n = 1 /\ y # x
     ELSE IF y.k = "inf" THEN y.n = -1
     ELSE x.n * y.d > y.n * x.d

Lt(a, b) == Gt(b, a)

\* ----------------------------------------------------------------- arrays
\* arr[i] with the 0-based index of the source; undefined outside the array
At(arr, i) == IF i >= 0 /\ i < Len(arr) THEN arr[i + 1] ELSE undefined

\* Array.prototype.slice(start, end): negative indices count from the end
RelIndex(len, i) == IF i < 0 THEN (IF len + i < 0 THEN 0 ELSE len + i)
                    ELSE (IF i > len THEN len ELSE i)

Slice(arr, start, end) ==
  LET from == RelIndex(Len(arr), start)
      to == RelIndex(Len(arr), end)
  IN IF to <= from THEN <<>> ELSE SubSeq(arr, from + 1, to)

SliceFrom(arr, start) == Slice(arr, start, Len(arr))

\* arr.reduce((a, b) => a + b, init)
RECURSIVE SumFrom(_, _)
SumFrom(arr, init) ==
  IF arr = <<>> THEN init ELSE SumFrom(Tail(arr), Add(init, Head(arr)))

\* ---------------------------------------------------------- movingAverage
InsufficientData == "Not enough data points to calculate moving average"

ReduceOfEmpty == "Reduce of empty array with no initial value"

Ok(v) == [status |-> "ok", value |-> v]

Threw(msg) == [status |-> "threw", value |-> msg]

\* arr.reduce((a, b) => a + b) with no initial value: a TypeError on []
Reduce(arr) == IF arr = <<>> THEN Threw(ReduceOfEmpty)
               ELSE Ok(SumFrom(Tail(arr), Head(arr)))

\* a variant whose guard also rejects data.length = N
movingAverageStrictGuard(data, N) ==
  IF Len(data) <= N THEN Threw(InsufficientData)
  ELSE LET sum == Reduce(SliceFrom(data, Len(data) - N))
       IN IF sum.status = "threw" THEN sum
          ELSE Ok(Div(sum.value, Num(N)))

movingAverage(data, N) ==
  IF Len(data) < N THEN Threw(InsufficientData)
  ELSE LET sum == Reduce(SliceFrom(data, Len(data) - N))
       IN IF sum.status = "threw" THEN sum
          ELSE Ok(Div(sum.value, Num(N)))

\* ---------------------------------------------------- simpleMovingAverage
\* a variant that also emits the first full window, indices 0 .. n-1
WindowFullFromFirst(i, n) == i >= n - 1

\* if (i >= n)
WindowFull(i, n) == i >= n

RECURSIVE SmaLoop(_, _, _, _, _)
SmaLoop(closePrices, n, i, sum, sma) ==
  IF i < Len(closePrices)
  THEN LET s1 == Add(sum, At(closePrices, i))
       IN IF WindowFull(i, n)
          THEN LET s2 == Sub(s1, At(closePrices, i - n))
               IN SmaLoop(closePrices, n, i + 1, s2, Append(sma, Div(s2, Num(n))))
          ELSE SmaLoop(closePrices, n, i + 1, s1, sma)
  ELSE sma

simpleMovingAverage(closePrices, n) == SmaLoop(closePrices, n, 0, Num(0), <<>>)

\* -------------------------------------------------------------------- MAD
\* subset.map((value) => Math.abs(value - avg))
Deviations(subset, avg) == [j \in 1..Len(subset) |-> Abs(Sub(subset[j], avg))]

MadValue(numbers, windowSize, i) ==
  LET subset == Slice(numbers, i, i + windowSize)
      avg == Div(SumFrom(subset, Num(0)), Num(windowSize))
      deviations == Deviations(subset, avg)
  IN Div(SumFrom(deviations, Num(0)), Num(windowSize))

\* a variant whose loop stops one window early
MadInRangeStrict(numbers, windowSize, i) == i < Len(numbers) - windowSize

\* i <= numbers.length - windowSize
MadInRange(numbers, windowSize, i) == i <= Len(numbers) - windowSize

RECURSIVE MadLoop(_, _, _, _)
MadLoop(numbers, windowSize, i, mad) ==
  IF MadInRange(numbers, windowSize, i)
  THEN MadLoop(numbers, windowSize, i + 1,
               Append(mad, MadValue(numbers, windowSize, i)))
  ELSE mad

MAD(numbers, windowSize) == MadLoop(numbers, windowSize, 0, <<>>)

\* --------------------------------------------------------- bollingerBands
\* Math.pow(val - mean, 2)
Square(a) == Mul(a, a)

SquaredDeviations(slice, mean) ==
  [j \in 1..Len(slice) |-> Square(Sub(slice[j], mean))]

\* mean + c * Math.sqrt(variance).  The square root of a rational is not a
\* rational in general, so a band is kept as the expression itself: the term
\* [k |-> "band"] stands for base + coef * sqrt(radicand); NaN when any part is.
Band(mean, c, variance) ==
  IF IsNaN(mean) \/ IsNaN(c) \/ IsNaN(variance) THEN NaN
  ELSE [k |-> "band", base |-> mean, coef |-> c, radicand |-> variance]

\* a variant that pads one record too many
NotEnoughDataYetOneMore(i, period) == i < period

\* if (i < period - 1)
NotEnoughDataYet(i, period) == i < period - 1

BandsAt(data, period, deviation, i) ==
  IF NotEnoughDataYet(i, period)
  THEN [upperBand |-> NaN, middleBand |-> NaN, lowerBand |-> NaN]
  ELSE LET slice == Slice(data, i - period + 1, i + 1)
           mean == Div(SumFrom(slice, Num(0)), Num(period))
           variance == Div(SumFrom(SquaredDeviations(slice, mean), Num(0)),
                           Num(period))
       IN [upperBand |-> Band(mean, deviation, variance),
           middleBand |-> mean,
           lowerBand |-> Band(mean, Neg(deviation), variance)]

RECURSIVE BbLoop(_, _, _, _, _)
BbLoop(data, period, deviation, i, results) ==
  IF i < Len(data)
  THEN BbLoop(data, period, deviation, i + 1,
              Append(results, BandsAt(data, period, deviation, i)))
  ELSE results

bollingerBands(data, period, deviation) ==
  BbLoop(data, period, deviation, 0, <<>>)

\* -------------------------------------------------------------------- rsi
calculateAverage(values) == Div(SumFrom(values, Num(0)), Num(Len(values)))

\* values[i] - values[i - 1] for i = 1 .. values.length - 1
Deltas(values) ==
  [j \in 1..(IF Len(values) = 0 THEN 0 ELSE Len(values) - 1) |->
     Sub(values[j + 1], values[j])]

Gain(delta) == IF Gt(delta, Num(0)) THEN delta ELSE Num(0)

Loss(delta) == IF Lt(delta, Num(0)) THEN Abs(delta) ELSE Num(0)

Gains(deltas) == [j \in 1..Len(deltas) |-> Gain(deltas[j])]

Losses(deltas) == [j \in 1..Len(deltas) |-> Loss(deltas[j])]

\* (avg * (period - 1) + x) / period
Smooth(avg, x, period) ==
  Div(Add(Mul(avg, Num(period - 1)), x), Num(period))

\* a variant in the algebraically equal form 100 * rs / (1 + rs)
RsiValueAsRatio(rs) == Div(Mul(Num(100), rs), Add(Num(1), rs))

\* 100 - 100 / (1 + rs)
RsiValue(rs) == Sub(Num(100), Div(Num(100), Add(Num(1), rs)))

\* the 0-based indices of the deltas that gains.slice(0, period) holds
SeedIndices(deltas, period) ==
  [j \in 1..Len(Slice(deltas, 0, period)) |-> j - 1]

\* -------------------------------------------------------------------- ema
\* candle[key]; undefined when the record has no such field
Field(candle, key) == IF key \in DOMAIN candle THEN candle[key] ELSE undefined

Prices(candles, key) == [j \in 1..Len(candles) |-> Field(candles[j], key)]

\* prices[i] * (2 / (period + 1)) + ema * (1 - 2 / (period + 1))
EmaNext(price, prev, period) ==
  LET alpha == Div(Num(2), Num(period + 1))
  IN Add(Mul(price, alpha), Mul(prev, Sub(Num(1), alpha)))

RECURSIVE EmaLoop(_, _, _, _, _)
EmaLoop(prices, period, i, prev, emaArray) ==
  IF i < Len(prices)
  THEN LET next == EmaNext(At(prices, i), prev, period)
       IN EmaLoop(prices, period, i + 1, next, Append(emaArray, next))
  ELSE emaArray

ema(candles, period, key) ==
  LET prices == Prices(candles, key)
      seedSum == Reduce(Slice(prices, 0, period))
  IN IF seedSum.status = "threw" THEN seedSum
     ELSE LET seed == Div(seedSum.value, Num(period))
          IN Ok(EmaLoop(prices, period, period, seed, <<seed>>))

\* ------------------------------------------------------------------- macd
ShortEMAValues(shortEMA, longEMA) ==
  SliceFrom(shortEMA, Len(longEMA) - Len(shortEMA))

LongEMAValues(shortEMA, longEMA) ==
  SliceFrom(longEMA, Len(longEMA) - Len(shortEMA))

\* shortEMAValues.map((ema, i) => ema - longEMAValues[i])
MacdLine(shortEMA, longEMA) ==
  LET shortEMAValues == ShortEMAValues(shortEMA, longEMA)
      longEMAValues == LongEMAValues(shortEMA, longEMA)
  IN [j \in 1..Len(shortEMAValues) |->
        Sub(shortEMAValues[j], At(longEMAValues, j - 1))]

\* { ...candles[i + longEMA.length - shortEMA.length], macdLine: value }
WithMacdLine(candles, i, value) ==
  IF i >= 0 /\ i < Len(candles)
  THEN [f \in DOMAIN candles[i + 1] \cup {"macdLine"} |->
          IF f = "macdLine" THEN value ELSE candles[i + 1][f]]
  ELSE [macdLine |-> value]

SignalCandles(candles, shortEMA, longEMA) ==
  LET macdLine == MacdLine(shortEMA, longEMA)
  IN [j \in 1..Len(macdLine) |->
        WithMacdLine(candles, (j - 1) + Len(longEMA) - Len(shortEMA), macdLine[j])]

SignalLine(candles, shortEMA, longEMA, signalPeriod) ==
  ema(SignalCandles(candles, shortEMA, longEMA), signalPeriod, "macdLine")

macd(candles, shortEMA, longEMA, signalPeriod) ==
  LET macdLine == MacdLine(shortEMA, longEMA)
      signalLine == SignalLine(candles, shortEMA, longEMA, signalPeriod)
  IN IF signalLine.status = "threw" THEN signalLine
     ELSE Ok([j \in 1..Len(macdLine) |->
                Sub(macdLine[j], At(signalLine.value, j - 1))])

\* ------------------------------------------------------------ calculateAD
\* a variant that guards the division: a bar with no range contributes 0
MoneyFlowMultiplierGuarded(high, low, close) ==
  IF high = low THEN Num(0)
  ELSE Div(Sub(Sub(close, low), Sub(high, close)), Sub(high, low))

\* (close - low - (high - close)) / (high - low)
MoneyFlowMultiplier(high, low, close) ==
  Div(Sub(Sub(close, low), Sub(high, close)), Sub(high, low))

CurrentAD(prevAD, bar) ==
  LET moneyFlowMultiplier == MoneyFlowMultiplier(bar.high, bar.low, bar.close)
      moneyFlowVolume == Mul(moneyFlowMultiplier, bar.volume)
  IN Add(prevAD, moneyFlowVolume)

\* ------------------------------------------------------------ input sets
PriceValues == {Num(v) : v \in 0..MaxPrice}

\* the arrays of at most max prices
Series(max) == UNION {[1..m -> PriceValues] : m \in 0..max}

\* window parameters, the non-positive and the too large ones included
Windows == -1..(MaxLen + 1)

EmaValues == {Num(1), Num(3)}

EmaSeries == UNION {[1..m -> EmaValues] : m \in 0..MaxLen}

\* the candles of a call to macd: n bars, oldest first
CandlesOf(n) ==
  [j \in 1..n |-> [time |-> Num(j), open |-> Num(1), high |-> Num(2),
                   low |-> Num(1), close |-> Num(2), volume |-> Num(5)]]

BarPrices == {Num(1), Num(2)}

BarVolumes == {Num(0), Num(3)}

Bars == [timestamp : {Num(0)}, high : BarPrices, low : BarPrices,
         close : BarPrices, volume : BarVolumes]

BarSeries == UNION {[1..m -> Bars] : m \in 0..MaxBars}

NoResult == [status |-> "none", value |-> <<>>]

NoLocals == [i |-> 0]

\* ------------------------------------------------------------------ Init
InitMovingAverage ==
  /\ fn = "movingAverage"
  /\ args \in [data : Series(MaxLen), N : Windows]

InitSimpleMovingAverage ==
  /\ fn = "simpleMovingAverage"
  /\ args \in [closePrices : Series(MaxLen), n : Windows]

InitMAD ==
  /\ fn = "MAD"
  /\ args \in [numbers : Series(MaxLen), windowSize : Windows]

InitBollingerBands ==
  /\ fn = "bollingerBands"
  /\ args \in [data : Series(MaxLen), period : 0..(MaxLen + 1),
               deviation : {Num(1), Num(2)}]

InitRsi ==
  /\ fn = "rsi"
  /\ args \in [period : 1..MaxLen, values : Series(MaxLen + 1)]

InitMacd ==
  /\ fn = "macd"
  /\ args \in [candles : {CandlesOf(0), CandlesOf(MaxLen + 1)},
               shortEMA : EmaSeries, longEMA : EmaSeries,
               signalPeriod : 0..(MaxLen + 1)]

InitCalculateAD ==
  /\ fn = "calculateAD"
  /\ args \in [cryptoData : BarSeries]

Init ==
  /\ \/ InitMovingAverage
     \/ InitSimpleMovingAverage
     \/ InitMAD
     \/ InitBollingerBands
     \/ InitRsi
     \/ InitMacd
     \/ InitCalculateAD
  /\ pc = "call"
  /\ loc = NoLocals
  /\ result = NoResult

\* --------------------------------------------------------------- actions
Finish(r) ==
  /\ result' = r
  /\ pc' = IF r.status = "threw" THEN "threw" ELSE "done"

CallMovingAverage ==
  /\ fn = "movingAverage" /\ pc = "call"
  /\ Finish(movingAverage(args.data, args.N))
  /\ UNCHANGED <<fn, args, loc>>

CallSimpleMovingAverage ==
  /\ fn = "simpleMovingAverage" /\ pc = "call"
  /\ Finish(Ok(simpleMovingAverage(args.closePrices, args.n)))
  /\ UNCHANGED <<fn, args, loc>>

CallMAD ==
  /\ fn = "MAD" /\ pc = "call"
  /\ Finish(Ok(MAD(args.numbers, args.windowSize)))
  /\ UNCHANGED <<fn, args, loc>>

CallBollingerBands ==
  /\ fn = "bollingerBands" /\ pc = "call"
  /\ Finish(Ok(bollingerBands(args.data, args.period, args.deviation)))
  /\ UNCHANGED <<fn, args, loc>>

\* macd, with the sequences it builds on the way kept in loc
CallMacd ==
  /\ fn = "macd" /\ pc = "call"
  /\ loc' = [shortEMAValues |-> ShortEMAValues(args.shortEMA, args.longEMA),
             longEMAValues |-> LongEMAValues(args.shortEMA, args.longEMA),
             macdLine |-> MacdLine(args.shortEMA, args.longEMA),
             signalLine |-> SignalLine(args.candles, args.shortEMA,
                                       args.longEMA, args.signalPeriod)]
  /\ Finish(macd(args.candles, args.shortEMA, args.longEMA, args.signalPeriod))
  /\ UNCHANGED <<fn, args>>

\* rsi up to its loop: deltas, gains, losses, the seed averages, the first value.
\* consumed lists, in order, the index of each delta taken into the averages.
RsiSeed ==
  /\ fn = "rsi" /\ pc = "call"
  /\ LET deltas == Deltas(args.values)
         gains == Gains(deltas)
         losses == Losses(deltas)
         avgGain == calculateAverage(Slice(gains, 0, args.period))
         avgLoss == calculateAverage(Slice(losses, 0, args.period))
         rs == Div(avgGain, avgLoss)
     IN loc' = [deltas |-> deltas, avgGain |-> avgGain, avgLoss |-> avgLoss,
                rs |-> rs, rsi |-> <<RsiValue(rs)>>, i |-> args.period,
                consumed |-> SeedIndices(deltas, args.period)]
  /\ pc' = "loop"
  /\ UNCHANGED <<fn, args, result>>

\* one iteration of the loop of rsi
RsiStep ==
  /\ fn = "rsi" /\ pc = "loop"
  /\ loc.i < Len(args.values)
  /\ LET delta == At(loc.deltas, loc.i - 1)
         gain == Gain(delta)
         loss == Loss(delta)
         avgGain == Smooth(loc.avgGain, gain, args.period)
         avgLoss == Smooth(loc.avgLoss, loss, args.period)
         rs == Div(avgGain, avgLoss)
     IN loc' = [loc EXCEPT !.avgGain = avgGain, !.avgLoss = avgLoss,
                           !.rs = rs, !.rsi = Append(@, RsiValue(rs)),
                           !.i = @ + 1,
                           !.consumed = Append(@, loc.i - 1)]
  /\ UNCHANGED <<fn, args, pc, result>>

RsiReturn ==
  /\ fn = "rsi" /\ pc = "loop"
  /\ ~(loc.i < Len(args.values))
  /\ Finish(Ok(loc.rsi))
  /\ UNCHANGED <<fn, args, loc>>

CalculateADEnter ==
  /\ fn = "calculateAD" /\ pc = "call"
  /\ loc' = [i |-> 0, prevAD |-> Num(0), ad |-> <<>>]
  /\ pc' = "loop"
  /\ UNCHANGED <<fn, args, result>>

\* one iteration of the loop of calculateAD
CalculateADStep ==
  /\ fn = "calculateAD" /\ pc = "loop"
  /\ loc.i < Len(args.cryptoData)
  /\ LET currentAD == CurrentAD(loc.prevAD, At(args.cryptoData, loc.i))
     IN loc' = [i |-> loc.i + 1, prevAD |-> currentAD,
                ad |-> Append(loc.ad, currentAD)]
  /\ UNCHANGED <<fn, args, pc, result>>

CalculateADReturn ==
  /\ fn = "calculateAD" /\ pc = "loop"
  /\ ~(loc.i < Len(args.cryptoData))
  /\ Finish(Ok(loc.ad))
  /\ UNCHANGED <<fn, args, loc>>

Next ==
  \/ CallMovingAverage
  \/ CallSimpleMovingAverage
  \/ CallMAD
  \/ CallBollingerBands
  \/ CallMacd
  \/ RsiSeed
  \/ RsiStep
  \/ RsiReturn
  \/ CalculateADEnter
  \/ CalculateADStep
  \/ CalculateADReturn

Spec == Init /\ [][Next]_vars

\* ================================================================ claims
\* helpers of the statements below: plain integer arithmetic on the inputs
RECURSIVE IntSum(_, _, _)
IntSum(arr, lo, hi) == IF lo > hi THEN 0 ELSE arr[lo].n + IntSum(arr, lo + 1, hi)

\* the mean of arr[lo .. hi] (1-based, lo <= hi) of an array of integers
MeanOf(arr, lo, hi) == Fin(IntSum(arr, lo, hi), hi - lo + 1)

Min(a, b) == IF a < b THEN a ELSE b

Last(q) == q[Len(q)]

Returned == pc \in {"done", "threw"}

\* ------------------------------------------------------------------- C1
\* C1 as stated: movingAverage throws the insufficient-data error whenever
\* data.length < N or N <= 0, and otherwise returns the mean of the last N.
C1_AsStated ==
  (fn = "movingAverage" /\ Returned) =>
     IF Len(args.data) < args.N \/ args.N <= 0
     THEN result = Threw(InsufficientData)
     ELSE result = Ok(MeanOf(args.data, Len(args.data) - args.N + 1, Len(args.data)))

\* C1 amended: movingAverage throws the insufficient-data error exactly when
\* data.length < N; for N <= 0 (never caught by that guard) it fails with the
\* TypeError of reduce on an empty array instead; for data.length >= N > 0 it
\* does not fail and returns the mean of the last N elements.
C1_MovingAverage ==
  (fn = "movingAverage" /\ Returned) =>
     IF Len(args.data) < args.N THEN result = Threw(InsufficientData)
     ELSE IF args.N <= 0 THEN result = Threw(ReduceOfEmpty)
     ELSE result = Ok(MeanOf(args.data, Len(args.data) - args.N + 1, Len(args.data)))

C1_Witness ==
  /\ fn = "movingAverage" /\ pc = "threw"
  /\ args.N <= 0 /\ Len(args.data) > 0
  /\ result.value = ReduceOfEmpty

C3_AsStated ==
  (fn = "MAD" /\ Returned) =>
     /\ pc = "done"
     /\ Len(result.value) =
          IF 1 <= args.windowSize /\ args.windowSize <= Len(args.numbers)
          THEN Len(args.numbers) - args.windowSize + 1 ELSE 0

\* C3 amended: MAD never fails; it returns len(numbers) - windowSize + 1 values
\* whenever windowSize <= len(numbers), also for windowSize <= 0 (then more
\* values than inputs), and none when windowSize > len(numbers).
C3_MAD ==
  (fn = "MAD" /\ Returned) =>
     /\ pc = "done"
     /\ Len(result.value) =
          IF args.windowSize <= Len(args.numbers)
          THEN Len(args.numbers) - args.windowSize + 1 ELSE 0

C3_Witness ==
  /\ fn = "MAD" /\ pc = "done"
  /\ args.windowSize <= 0
  /\ Len(result.value) > Len(args.numbers)

\* ------------------------------------------------------------------- C4
\* C4: for period >= 1 bollingerBands returns one record per input; the record
\* at index i < period - 1 has its three fields NaN, and at i >= period - 1
\* its middleBand is the mean of data[i-period+1 .. i], a finite number.
C4_BollingerBands ==
  (fn = "bollingerBands" /\ Returned /\ args.period >= 1) =>
     /\ pc = "done"
     /\ Len(result.value) = Len(args.data)
     /\ \A i \in 0..(Len(args.data) - 1) :
          LET r == result.value[i + 1]
          IN IF i < args.period - 1
             THEN r.upperBand = NaN /\ r.middleBand = NaN /\ r.lowerBand = NaN
             ELSE /\ r.middleBand = MeanOf(args.data, i - args.period + 2, i + 1)
                  /\ IsFinite(r.middleBand)

C4_Witness ==
  /\ fn = "bollingerBands" /\ pc = "done"
  /\ args.period = 2 /\ Len(args.data) = MaxLen
  /\ result.value[1].middleBand = NaN
  /\ IsFinite(result.value[MaxLen].middleBand)

\* ------------------------------------------------------------- C5 .. C8
RsiRunning == fn = "rsi" /\ pc \in {"loop", "done"}

\* how many times the delta with 0-based index d entered the averages
TimesConsumed(d) == Cardinality({j \in 1..Len(loc.consumed) : loc.consumed[j] = d})

StrictlyIncreasing(values) ==
  \A j \in 1..(Len(values) - 1) : Gt(values[j + 1], values[j])

NoLosses(values) ==
  \A j \in 1..(Len(values) - 1) : ~Lt(values[j + 1], values[j])

\* C5 as stated: for len(values) > period >= 1, rsi returns exactly
\* len(values) - period values.
C5_AsStated ==
  (fn = "rsi" /\ pc = "done" /\ Len(args.values) > args.period /\ args.period >= 1) =>
     Len(result.value) = Len(args.values) - args.period

\* C6 as stated: whenever avgLoss is 0 when an output is produced, rs is
\* infinite and the output is 100; every output is 100 for a series with no
\* losses.
C6_AsStated ==
  /\ (RsiRunning /\ loc.avgLoss = Num(0)) =>
        loc.rs.k = "inf" /\ Last(loc.rsi) = Num(100)
  /\ (fn = "rsi" /\ pc = "done" /\ NoLosses(args.values)) =>
        \A j \in 1..Len(result.value) : result.value[j] = Num(100)

\* C6 amended (period >= 1): whenever avgLoss is 0 and avgGain is positive
\* when an output is produced, rs is +Infinity and the output is exactly 100;
\* when avgGain is 0 as well (no gain either, as in a constant series) rs is
\* 0/0 = NaN and the output is NaN.  Every output is 100 for a strictly
\* increasing series of at least two values.
C6_RsiSaturates ==
  /\ (RsiRunning /\ loc.avgLoss = Num(0) /\ Gt(loc.avgGain, Num(0))) =>
        loc.rs = Infinity /\ Last(loc.rsi) = Num(100)
  /\ (RsiRunning /\ loc.avgLoss = Num(0) /\ loc.avgGain = Num(0)) =>
        loc.rs = NaN /\ Last(loc.rsi) = NaN
  /\ (RsiRunning /\ loc.avgLoss = Num(0)) =>
        (Gt(loc.avgGain, Num(0)) \/ loc.avgGain = Num(0))
  /\ (fn = "rsi" /\ pc = "done" /\ Len(args.values) >= 2
        /\ StrictlyIncreasing(args.values)) =>
        \A j \in 1..Len(result.value) : result.value[j] = Num(100)

C6_Witness ==
  /\ fn = "rsi" /\ pc = "done"
  /\ Len(args.values) = 3 /\ args.period = 2
  /\ StrictlyIncreasing(args.values)
  /\ loc.avgLoss = Num(0) /\ Gt(loc.avgGain, Num(0))
  /\ Len(result.value) >= 2 /\ Last(result.value) = Num(100)

\* C8 as stated: the seed takes deltas 0 .. period-1 and the smoothing steps
\* take the later deltas only, from index period on: every delta enters the
\* running averages exactly once.
C8_AsStated ==
  (fn = "rsi" /\ pc = "done" /\ Len(args.values) > args.period /\ args.period >= 1) =>
     /\ \A d \in 0..(Len(loc.deltas) - 1) : TimesConsumed(d) = 1
     /\ \A j \in (args.period + 1)..Len(loc.consumed) : loc.consumed[j] >= args.period

\* ------------------------------------------------------------------- C7
ADRunning == fn = "calculateAD" /\ pc \in {"loop", "done"}

Degenerate(bar) == bar.high = bar.low

\* the money-flow volume of a bar with high # low, from its integer fields
FlowVolume(bar) ==
  Fin((bar.close.n - bar.low.n - (bar.high.n - bar.close.n)) * bar.volume.n,
      bar.high.n - bar.low.n)

RECURSIVE FlowSum(_, _)
FlowSum(bars, i) ==
  IF i = 0 THEN Num(0) ELSE Add(FlowSum(bars, i - 1), FlowVolume(bars[i]))

\* C7: if bar j has high = low, every AD[i] with i >= j is NaN or an infinity,
\* whatever the later bars hold; the values before the first such bar are the
\* finite running sums of the money-flow volumes.
C7_ADPoisoned ==
  ADRunning =>
     /\ \A j \in 1..Len(loc.ad) :
          Degenerate(args.cryptoData[j]) =>
             \A i \in j..Len(loc.ad) : ~IsFinite(loc.ad[i])
     /\ \A i \in 1..Len(loc.ad) :
          (\A j \in 1..i : ~Degenerate(args.cryptoData[j])) =>
             IsFinite(loc.ad[i]) /\ loc.ad[i] = FlowSum(args.cryptoData, i)
     /\ pc = "done" =>
          result.value = loc.ad /\ Len(loc.ad) = Len(args.cryptoData)

C7_Witness ==
  /\ fn = "calculateAD" /\ pc = "done"
  /\ Len(args.cryptoData) >= 2
  /\ Degenerate(args.cryptoData[1])
  /\ ~Degenerate(args.cryptoData[2])
  /\ ~IsFinite(result.value[2])

\* ------------------------------------------------------------- C9, C10
\* the last n elements of q (n <= Len(q))
LastN(q, n) == SubSeq(q, Len(q) - n + 1, Len(q))

\* C9 as stated: the alignment leaves both sequences with the length
\* min(len(shortEMA), len(longEMA)), the longer one keeping its most recent
\* values, and macdLine has that length with every entry the defined
\* difference of the aligned pair.
C9_AsStated ==
  (fn = "macd" /\ Returned) =>
     LET m == Min(Len(args.shortEMA), Len(args.longEMA))
     IN /\ loc.shortEMAValues = LastN(args.shortEMA, m)
        /\ loc.longEMAValues = LastN(args.longEMA, m)
        /\ Len(loc.macdLine) = m
        /\ \A j \in 1..Len(loc.macdLine) :
             /\ IsFinite(loc.macdLine[j])
             /\ j <= Len(loc.longEMAValues)
             /\ loc.macdLine[j] = Sub(loc.shortEMAValues[j], loc.longEMAValues[j])

\* C10 as stated: with 1 <= signalPeriod <= len(macdLine) the signal line is
\* signalPeriod - 1 shorter than macdLine and every returned entry is
\* macdLine[i] - signalLine[i] for an index i present in both.
C10_AsStated ==
  (fn = "macd" /\ Returned /\ 1 <= args.signalPeriod
     /\ args.signalPeriod <= Len(loc.macdLine)) =>
     /\ pc = "done"
     /\ Len(loc.signalLine.value) = Len(loc.macdLine) - (args.signalPeriod - 1)
     /\ \A j \in 1..Len(result.value) :
          /\ j <= Len(loc.signalLine.value)
          /\ result.value[j] = Sub(loc.macdLine[j], loc.signalLine.value[j])

====
